---- MODULE Spec2Model ----
(***************************************************************************)
(* Model of the malloy-mcp-server startup pipeline and query tool.         *)
(*                                                                         *)
(* Spec        : server.py as it stands: the module-level publisher        *)
(*               client and the on_startup hook register_resources, which  *)
(*               enumerates project -> packages -> models and publishes    *)
(*               them as resources.  Every await on the client is one      *)
(*               step; the remote publisher answers each call or raises.   *)
(*               Once the hook has returned, the server's query tool and   *)
(*               the registered resources serve requests.                  *)
(* ConnectSpec : connect_to_publisher, the retrying connection             *)
(*               establisher that tests/test_server.py imports from        *)
(*               server.py.                                                *)
(* QuerySpec   : execute_malloy_query, one call at a time, in its three    *)
(*               forms: tools.py, tools/query_executor.py, and the         *)
(*               six-parameter form tests/test_query_executor.py calls.    *)
(***************************************************************************)
EXTENDS Naturals, Sequences, FiniteSets, TLC

VARIABLES
    remote,            \* the publisher's catalog: <<[name, models]>>
    client,            \* server.py:39 module-level client: [open, closes]
    pc,                \* position inside register_resources
    project,           \* server.py:262 result of get_project
    packages,          \* server.py:265 result of list_packages
    models,            \* server.py:270/282 result of the last list_models
    i,                 \* index of `pkg` in the two `for pkg in packages`
    j,                 \* index of `model` in `for model in models`
    package_metadata,  \* server.py:266
    model_metadata,    \* server.py:280
    resources,         \* what mcp.add_resource has registered, in order
    error,             \* the exception register_resources raised, or NoError
    log,               \* mcp.logger records
    calls,             \* every call issued on the client, in order
    cpc,               \* position inside connect_to_publisher
    max_retries,       \* connect_to_publisher argument
    attempt,           \* failed attempts so far
    probes,            \* clients constructed so far: <<"open"|"closed">>
    outcomes,          \* what each probe did: <<"raise"|"empty"|"ok">>
    delays,            \* the back-off delays slept, in ms
    target_url,        \* the URL connect_to_publisher resolved
    conn_error,        \* the connection error raised, or NoConnError
    remote_projects,   \* the publisher's projects, as list_projects returns them
    ctx_project,       \* lifespan context: app_ctx["project_name"]
    request,           \* the execute_malloy_query call being served
    reply,             \* what the publisher answered to its execute_query
    qcalls,            \* QueryParams of every execute_query issued for it
    result,            \* what the call returned or raised
    ctx_log,           \* ctx.info / ctx.error / report_progress, in order
    served             \* requests the running server has served, in order

loaderVars == <<remote, client, pc, project, packages, models, i, j,
                package_metadata, model_metadata, resources, error, log, calls>>
connVars == <<cpc, max_retries, attempt, probes, outcomes, delays, target_url, conn_error>>
vars == <<remote, client, pc, project, packages, models, i, j,
          package_metadata, model_metadata, resources, error, log, calls,
          cpc, max_retries, attempt, probes, outcomes, delays, target_url, conn_error,
          remote_projects, ctx_project, request, reply, qcalls, result, ctx_log,
          served>>
queryVars == <<ctx_project, request, reply, qcalls, result, ctx_log>>

(***************************************************************************)
(* Bounds of the model and the remote publisher's possible catalogs.       *)
(***************************************************************************)
MaxPkgs == 2
MaxModels == 2
MaxRetriesBound == 3
MaxServed == 2

PkgNames == {"sales", "inventory", "finance"}
ModelPaths == {"orders.malloy", "items.malloy"}

PROJECT_NAME == "home"
PUBLISHER_URL == "http://localhost:4000"

NoError == [type |-> "none", message |-> "", context |-> {}]
NoProject == [name |-> "", description |-> ""]

Injective(s) == \A a, b \in DOMAIN s : s[a] = s[b] => a = b

SeqsUpTo(S, n) == UNION {[1..k -> S] : k \in 0..n}

\* A package's model references: paths unique within the package.
ModelLists == {s \in SeqsUpTo(ModelPaths, MaxModels) : Injective(s)}

\* The publisher's packages: names unique within the project.
Catalogs ==
    {c \in SeqsUpTo([name : PkgNames, models : ModelLists], MaxPkgs) :
        \A a, b \in DOMAIN c : c[a].name = c[b].name => a = b}

\* The publisher's project list; the configured project may or may not be first.
ProjectLists == {<<"home">>, <<"test_project", "home">>, <<"test_project">>}

HasProject(name) == \E k \in DOMAIN remote_projects : remote_projects[k] = name

RemoteModelsOf(name) ==
    LET k == CHOOSE k \in DOMAIN remote : remote[k].name = name
    IN  remote[k].models

(***************************************************************************)
(* execute_malloy_query: the values a call works on.                       *)
(***************************************************************************)
\* Python's None, for an optional string that was not given
PyNone == "<None>"
\* bool(s) of an optional string
Truthy(s) == s # PyNone /\ s # ""

\* the request surface: project, package, model path and a query selection
NoRequest ==
    [project_name |-> PyNone, package_name |-> PyNone, model_path |-> <<>>,
     query |-> PyNone, source_name |-> PyNone, query_name |-> PyNone,
     fault |-> "none"]

\* what client.execute_query did: raised `text`, or returned three payload texts
NoReply ==
    [fails |-> FALSE, text |-> "", data_styles |-> PyNone, model_def |-> PyNone,
     query_result |-> PyNone]

\* a decoded JSON value: its kind and its canonical text
NoDecoded == [type |-> "none", text |-> ""]
NoValue ==
    [data_styles |-> NoDecoded, model_def |-> NoDecoded, query_result |-> NoDecoded]

\* the context dict of an error: `keys` are the keys it has
NoContext ==
    [keys |-> {}, query |-> PyNone, model_path |-> <<>>, project |-> PyNone,
     package |-> PyNone]

NoOutcome ==
    [handler |-> "none", kind |-> "none", type |-> "", prefix |-> "", detail |-> "",
     context |-> NoContext, value |-> NoValue]

QueryIdle ==
    /\ request = NoRequest
    /\ reply = NoReply
    /\ qcalls = <<>>
    /\ result = NoOutcome
    /\ ctx_log = <<>>

(***************************************************************************)
(* The client calls, as recorded on the wire.                              *)
(***************************************************************************)
\* every call of register_resources passes PROJECT_NAME as its project
Call(op, pkg, path, ok) ==
    [project |-> PROJECT_NAME, op |-> op, pkg |-> pkg, path |-> path, ok |-> ok]

\* str(e) of the exception a failed client call raises.
CauseText(op) == op \o " failed"

(***************************************************************************)
(* register_resources: the except clause.                                  *)
(***************************************************************************)
ErrorMsg(cause) == "Failed to register Malloy resources: " \o cause

\* raise RuntimeError(error_msg) from e: a message, no structured context.
RaisedError(cause) ==
    [type |-> "RuntimeError", message |-> ErrorMsg(cause), context |-> {}]

\* except Exception as e: log, re-raise.  The client is left as it is.
SwallowException(op) ==
    /\ error' = RaisedError(CauseText(op))
    /\ log' = Append(log, [level |-> "error", message |-> ErrorMsg(CauseText(op))])
    /\ pc' = "ready"
    /\ UNCHANGED <<client, resources>>
HandleException(op) ==
    /\ error' = RaisedError(CauseText(op))
    /\ log' = Append(log, [level |-> "error", message |-> ErrorMsg(CauseText(op))])
    /\ pc' = "failed"
    /\ UNCHANGED <<client, resources>>

(***************************************************************************)
(* register_resources: the body, one step per await.                       *)
(***************************************************************************)
\* project = await client.get_project(PROJECT_NAME)
GetProject ==
    /\ pc = "get_project"
    /\ \E ok \in {b \in BOOLEAN : b => HasProject(PROJECT_NAME)} :
        /\ calls' = Append(calls, Call("get_project", "", "", ok))
        /\ IF ok
           THEN /\ project' = [name |-> PROJECT_NAME, description |-> "home project"]
                /\ pc' = "list_packages"
                /\ UNCHANGED <<client, resources, error, log>>
           ELSE /\ HandleException("get_project")
                /\ UNCHANGED project
    /\ UNCHANGED <<remote, packages, models, i, j, package_metadata, model_metadata>>
    /\ UNCHANGED connVars
    /\ UNCHANGED <<remote_projects, served, queryVars>>

\* packages = await client.list_packages(PROJECT_NAME); package_metadata = []
ListPackages ==
    /\ pc = "list_packages"
    /\ \E ok \in BOOLEAN :
        /\ calls' = Append(calls, Call("list_packages", "", "", ok))
        /\ IF ok
           THEN /\ packages' = [k \in DOMAIN remote |-> remote[k].name]
                /\ package_metadata' = <<>>
                /\ i' = 1
                /\ pc' = "package_loop"
                /\ UNCHANGED <<client, resources, error, log>>
           ELSE /\ HandleException("list_packages")
                /\ UNCHANGED <<packages, package_metadata, i>>
    /\ UNCHANGED <<remote, project, models, j, model_metadata>>
    /\ UNCHANGED connVars
    /\ UNCHANGED <<remote_projects, served, queryVars>>

\* MalloyPackageMetadata(name=pkg.name, ..., models=[model.path for model in models])
PackageMeta(name, ms) == [name |-> name, models |-> ms]

\* first loop: models = await client.list_models(PROJECT_NAME, pkg.name)
ListModelsForPackage ==
    /\ pc = "package_loop"
    /\ i <= Len(packages)
    /\ \E ok \in BOOLEAN :
        /\ calls' = Append(calls, Call("list_models", packages[i], "", ok))
        /\ IF ok
           THEN /\ models' = RemoteModelsOf(packages[i])
                /\ package_metadata' =
                       Append(package_metadata, PackageMeta(packages[i], models'))
                /\ i' = i + 1
                /\ UNCHANGED <<client, resources, error, log, pc>>
           ELSE /\ HandleException("list_models")
                /\ UNCHANGED <<models, package_metadata, i>>
    /\ UNCHANGED <<remote, project, packages, j, model_metadata>>
    /\ UNCHANGED connVars
    /\ UNCHANGED <<remote_projects, served, queryVars>>

\* first loop exhausted: model_metadata = []; second `for pkg in packages`
StartModelLoop ==
    /\ pc = "package_loop"
    /\ i > Len(packages)
    /\ model_metadata' = <<>>
    /\ i' = 1
    /\ pc' = "model_loop"
    /\ UNCHANGED <<remote, client, project, packages, models, j,
                   package_metadata, resources, error, log, calls>>
    /\ UNCHANGED connVars
    /\ UNCHANGED <<remote_projects, served, queryVars>>

\* second loop: models = await client.list_models(PROJECT_NAME, pkg.name)
ListModelsAgain ==
    /\ pc = "model_loop"
    /\ i <= Len(packages)
    /\ \E ok \in BOOLEAN :
        /\ calls' = Append(calls, Call("list_models", packages[i], "", ok))
        /\ IF ok
           THEN /\ models' = RemoteModelsOf(packages[i])
                /\ j' = 1
                /\ pc' = "model_detail"
                /\ UNCHANGED <<client, resources, error, log>>
           ELSE /\ HandleException("list_models")
                /\ UNCHANGED <<models, j>>
    /\ UNCHANGED <<remote, project, packages, i, package_metadata, model_metadata>>
    /\ UNCHANGED connVars
    /\ UNCHANGED <<remote_projects, served, queryVars>>

\* MalloyModelMetadata(path=model.path, ..., sources=model_details.sources, ...)
ModelMeta(path) == [path |-> path, sources |-> <<"source_of_" \o path>>]

\* model_details = await client.get_model(PROJECT_NAME, pkg.name, model.path)
GetModel ==
    /\ pc = "model_detail"
    /\ j <= Len(models)
    /\ \E ok \in BOOLEAN :
        /\ calls' = Append(calls, Call("get_model", packages[i], models[j], ok))
        /\ IF ok
           THEN /\ model_metadata' = Append(model_metadata, ModelMeta(models[j]))
                /\ j' = j + 1
                /\ UNCHANGED <<client, resources, error, log, pc>>
           ELSE /\ HandleException("get_model")
                /\ UNCHANGED <<model_metadata, j>>
    /\ UNCHANGED <<remote, project, packages, models, i, package_metadata>>
    /\ UNCHANGED connVars
    /\ UNCHANGED <<remote_projects, served, queryVars>>

\* `for model in models` exhausted: next pkg of the second loop
NextPackage ==
    /\ pc = "model_detail"
    /\ j > Len(models)
    /\ i' = i + 1
    /\ pc' = "model_loop"
    /\ UNCHANGED <<remote, client, project, packages, models, j, package_metadata,
                   model_metadata, resources, error, log, calls>>
    /\ UNCHANGED connVars
    /\ UNCHANGED <<remote_projects, served, queryVars>>

PROJECT_URI == "malloy://project/home/metadata"
\* resources.py registers this one; server.py's hook does not
HEALTHCHECK_URI == "malloy://healthcheck"
PackageUri(name) == "malloy://project/home/package/" \o name
ModelUri(path) == "malloy://project/home/model/" \o path

\* project_meta = MalloyProjectMetadata(...); the three add_resource blocks
RegisteredResources ==
    <<[name |-> PROJECT_URI,
       data |-> [name |-> PROJECT_NAME, packages |-> package_metadata,
                 models |-> model_metadata]]>>
    \o [k \in DOMAIN package_metadata |->
           [name |-> PackageUri(package_metadata[k].name),
            data |-> package_metadata[k]]]
    \o [k \in DOMAIN model_metadata |->
           [name |-> ModelUri(model_metadata[k].path),
            data |-> model_metadata[k]]]

\* second loop exhausted: build project_meta and register every resource
Publish ==
    /\ pc = "model_loop"
    /\ i > Len(packages)
    /\ resources' = RegisteredResources
    /\ pc' = "ready"
    /\ UNCHANGED <<remote, client, project, packages, models, i, j, package_metadata,
                   model_metadata, error, log, calls>>
    /\ UNCHANGED connVars
    /\ UNCHANGED <<remote_projects, served, queryVars>>

(***************************************************************************)
(* connect_to_publisher: construct a client, verify it with list_projects, *)
(* release it and back off on failure, give up after max_retries attempts. *)
(***************************************************************************)
BASE_DELAY_MS == 500
JITTER_LOW == 80
JITTER_HIGH == 120
JitterPercents == {JITTER_LOW, 100, JITTER_HIGH}

ENV_URL == "http://test-publisher:5000"
NoUrl == ""

NoConnError == [type |-> "none", message |-> "", attempts |-> 0, url |-> ""]

\* base URL argument, else the environment setting, else the default
ResolveUrl(base_url, env_url) ==
    IF base_url # NoUrl THEN base_url
    ELSE IF env_url # NoUrl THEN env_url
    ELSE PUBLISHER_URL

RECURSIVE Pow2(_)
Pow2(k) == IF k = 0 THEN 1 ELSE 2 * Pow2(k - 1)

\* delay before retry k (0-indexed) = baseDelay * 2^k * jitterFactor
BackoffDelay(k, base, jitter) == (base * Pow2(k) * jitter) \div 100

\* the verification call succeeded: it returned, and the list is non-empty
ProbeAcceptsEmpty(outcome) == outcome \in {"ok", "empty"}
ProbeSucceeded(outcome) == outcome = "ok"

\* another attempt is permitted after `done` failed ones
RetryOffByOne(done, limit) == done <= limit
RetryPermitted(done, limit) == done < limit

\* every client constructed so far is released
LeakProbes(ps) == ps
ReleasedProbes(ps) == [k \in DOMAIN ps |-> "closed"]

ProbeFailureText(outcome) ==
    IF outcome = "empty" THEN "No projects found" ELSE "Connection failed"

ConnectionError(n, url, outcome) ==
    [type |-> "MalloyError",
     message |-> "Failed to connect to Malloy Publisher: " \o ProbeFailureText(outcome),
     attempts |-> n,
     url |-> url]

\* client = MalloyAPIClient(url)
ConstructClient ==
    /\ cpc = "construct"
    /\ \E ok \in BOOLEAN :
        IF ok
        THEN /\ probes' = Append(probes, "open")
             /\ cpc' = "probe"
             /\ UNCHANGED outcomes
        ELSE /\ outcomes' = Append(outcomes, "construct_raise")
             /\ cpc' = "release"
             /\ UNCHANGED probes
    /\ UNCHANGED <<max_retries, attempt, delays, target_url, conn_error>>
    /\ UNCHANGED loaderVars
    /\ UNCHANGED <<remote_projects, served, queryVars>>

\* projects = client.list_projects(); success needs a non-empty list
Probe ==
    /\ cpc = "probe"
    /\ \E outcome \in {"raise", "empty", "ok"} :
        /\ outcomes' = Append(outcomes, outcome)
        /\ cpc' = IF ProbeSucceeded(outcome) THEN "connected" ELSE "release"
    /\ UNCHANGED <<max_retries, attempt, probes, delays, target_url, conn_error>>
    /\ UNCHANGED loaderVars
    /\ UNCHANGED <<remote_projects, served, queryVars>>

\* a failed attempt: release its client, count it, decide whether to retry
ReleaseFailed ==
    /\ cpc = "release"
    /\ probes' = ReleasedProbes(probes)
    /\ attempt' = attempt + 1
    /\ cpc' = IF RetryPermitted(attempt', max_retries) THEN "backoff" ELSE "raise"
    /\ UNCHANGED <<max_retries, outcomes, delays, target_url, conn_error>>
    /\ UNCHANGED loaderVars
    /\ UNCHANGED <<remote_projects, served, queryVars>>

\* sleep before retry k = attempt - 1
Backoff ==
    /\ cpc = "backoff"
    /\ \E jitter \in JitterPercents :
        delays' = Append(delays, BackoffDelay(attempt - 1, BASE_DELAY_MS, jitter))
    /\ cpc' = "construct"
    /\ UNCHANGED <<max_retries, attempt, probes, outcomes, target_url, conn_error>>
    /\ UNCHANGED loaderVars
    /\ UNCHANGED <<remote_projects, served, queryVars>>

\* retries exhausted: the typed connection error, with attempts and URL
RaiseConnectionError ==
    /\ cpc = "raise"
    /\ conn_error' = ConnectionError(attempt, target_url, outcomes[Len(outcomes)])
    /\ cpc' = "raised"
    /\ UNCHANGED <<max_retries, attempt, probes, outcomes, delays, target_url>>
    /\ UNCHANGED loaderVars
    /\ UNCHANGED <<remote_projects, served, queryVars>>

LoaderIdle ==
    /\ remote = <<>>
    /\ client = [open |-> FALSE, closes |-> 0]
    /\ pc = "idle"
    /\ project = NoProject
    /\ packages = <<>>
    /\ models = <<>>
    /\ i = 1
    /\ j = 1
    /\ package_metadata = <<>>
    /\ model_metadata = <<>>
    /\ resources = <<>>
    /\ error = NoError
    /\ log = <<>>
    /\ calls = <<>>
    /\ served = <<>>

\* connect_to_publisher(base_url, max_retries) is entered
ConnectInit ==
    /\ LoaderIdle
    /\ cpc = "construct"
    /\ max_retries \in 1..MaxRetriesBound
    /\ attempt = 0
    /\ probes = <<>>
    /\ outcomes = <<>>
    /\ delays = <<>>
    /\ \E base_url \in {NoUrl, PUBLISHER_URL}, env_url \in {NoUrl, ENV_URL} :
           target_url = ResolveUrl(base_url, env_url)
    /\ conn_error = NoConnError
    /\ remote_projects = <<PROJECT_NAME>>
    /\ ctx_project = PROJECT_NAME
    /\ QueryIdle

ConnectNext ==
    \/ ConstructClient
    \/ Probe
    \/ ReleaseFailed
    \/ Backoff
    \/ RaiseConnectionError

ConnectSpec == ConnectInit /\ [][ConnectNext]_vars

ConnIdle ==
    /\ cpc = "idle"
    /\ max_retries = 0
    /\ attempt = 0
    /\ probes = <<>>
    /\ outcomes = <<>>
    /\ delays = <<>>
    /\ target_url = NoUrl
    /\ conn_error = NoConnError

\* After import: the client exists (server.py:39), the hook has not run.
Init ==
    /\ remote \in Catalogs
    /\ client = [open |-> TRUE, closes |-> 0]
    /\ pc = "get_project"
    /\ project = NoProject
    /\ packages = <<>>
    /\ models = <<>>
    /\ i = 1
    /\ j = 1
    /\ package_metadata = <<>>
    /\ model_metadata = <<>>
    /\ resources = <<>>
    /\ error = NoError
    /\ log = <<>>
    /\ calls = <<>>
    /\ served = <<>>
    /\ ConnIdle
    /\ remote_projects \in ProjectLists
    /\ ctx_project = PROJECT_NAME
    /\ QueryIdle

(***************************************************************************)
(* The running server: requests are taken once the startup hook is through. *)
(***************************************************************************)
\* register_resources is an on_startup hook and has returned
Accepting == pc = "ready"

Request(kind, target, outcome) ==
    [kind |-> kind, project |-> PROJECT_NAME, target |-> target,
     outcome |-> outcome, during |-> pc]

\* the tool of server.py: client.run_query for PROJECT_NAME; the rows come
\* back as MalloyQueryOutput, any exception as ValueError
ExecuteMalloyQuery ==
    /\ Accepting
    /\ Len(served) < MaxServed
    /\ \E model_path \in ModelPaths, ok \in BOOLEAN :
           served' = Append(served,
                            Request("query", model_path,
                                    IF ok THEN "MalloyQueryOutput" ELSE "ValueError"))
    /\ UNCHANGED loaderVars
    /\ UNCHANGED connVars
    /\ UNCHANGED <<remote_projects, queryVars>>

\* a registered resource is read: its data is what add_resource was given
ReadResource ==
    /\ Accepting
    /\ Len(served) < MaxServed
    /\ \E k \in DOMAIN resources :
           served' = Append(served, Request("resource", resources[k].name, "data"))
    /\ UNCHANGED loaderVars
    /\ UNCHANGED connVars
    /\ UNCHANGED <<remote_projects, queryVars>>

Next ==
    \/ GetProject
    \/ ListPackages
    \/ ListModelsForPackage
    \/ StartModelLoop
    \/ ListModelsAgain
    \/ GetModel
    \/ NextPackage
    \/ Publish
    \/ ExecuteMalloyQuery
    \/ ReadResource

Spec == Init /\ [][Next]_vars

(***************************************************************************)
(* execute_malloy_query: decoding the publisher's payload.                 *)
(***************************************************************************)
STYLES_JSON == "{\"style\": \"test\"}"
DEF_JSON == "{\"def\": \"test\"}"
ROWS_JSON == "[{\"test\": \"data\"}]"
BAD_JSON == "{not json"

\* the texts json.loads accepts, of those the publisher sends here
JsonObjects == {"{}", STYLES_JSON, DEF_JSON}
JsonArrays == {"[]", ROWS_JSON}

TYPE_ERROR_TEXT == "the JSON object must be str, bytes or bytearray, not NoneType"
DECODE_ERROR_TEXT == "Expecting value"

EmptyDict == [type |-> "dict", text |-> "{}"]
EmptyList == [type |-> "list", text |-> "[]"]

Loaded(value) == [ok |-> TRUE, error |-> "", detail |-> "", value |-> value]
LoadError(type, detail) ==
    [ok |-> FALSE, error |-> type, detail |-> detail, value |-> NoDecoded]

\* json.loads(text): None is a TypeError, anything undecodable a JSONDecodeError
JsonLoads(text) ==
    IF text = PyNone THEN LoadError("TypeError", TYPE_ERROR_TEXT)
    ELSE IF text \in JsonObjects THEN Loaded([type |-> "dict", text |-> text])
    ELSE IF text \in JsonArrays THEN Loaded([type |-> "list", text |-> text])
    ELSE LoadError("JSONDecodeError", DECODE_ERROR_TEXT)

\* json.loads(x) if x else <empty>
LoadsOrEmpty(text, empty) == IF Truthy(text) THEN JsonLoads(text) ELSE Loaded(empty)

(***************************************************************************)
(* execute_malloy_query: what a call leaves behind.                        *)
(***************************************************************************)
QueryParams(project_name, package_name, path, query, source_name, query_name) ==
    [project_name |-> project_name, package_name |-> package_name, path |-> path,
     query |-> query, source_name |-> source_name, query_name |-> query_name]

Context(keys, query, model_path, project_name, package_name) ==
    [keys |-> keys, query |-> query, model_path |-> model_path,
     project |-> project_name, package |-> package_name]

Raised(handler, type, prefix, detail, context) ==
    [handler |-> handler, kind |-> "raised", type |-> type, prefix |-> prefix,
     detail |-> detail, context |-> context, value |-> NoValue]

Returned(handler, data_styles, model_def, query_result) ==
    [handler |-> handler, kind |-> "returned", type |-> "", prefix |-> "",
     detail |-> "", context |-> NoContext,
     value |-> [data_styles |-> data_styles, model_def |-> model_def,
                query_result |-> query_result]]

Message(r) == r.prefix \o r.detail

Info(text) == [level |-> "info", text |-> text]
Progress(text) == [level |-> "progress", text |-> text]
ErrorLog(text) == [level |-> "error", text |-> text]

\* what one run of a handler did: the calls it issued, its outcome, its log
Ran(issued, r, logged) == [qcalls |-> issued, result |-> r, ctx_log |-> logged]

\* model_path.split("/")[0]; a path is held as its '/'-separated components
FirstComponent(model_path) == Head(model_path)

CONTEXT_ERROR_TEXT == "Context is not available outside of a request"
NOTIFY_ERROR_TEXT == "Connection closed"

\* the steps before the client is used that can raise: the first ctx.info, the
\* first report_progress, the lifespan-context lookup
EarlyFaults == {"info", "progress", "context"}

(***************************************************************************)
(* execute_malloy_query as tools.py has it: (query, model_path, ctx).      *)
(***************************************************************************)
\* tools.py:96-102, the outer except clause
ToolsUnexpected(req, issued, logged, detail) ==
    Ran(issued,
        Raised("tools", "MalloyError", "Unexpected error: ", detail,
               Context({"query", "model_path"}, req.query, req.model_path,
                       PyNone, PyNone)),
        Append(logged, ErrorLog("Unexpected error: " \o detail)))

\* tools.py:63-72, the client's exception wrapped with its context
ToolsSwallowFailure(req, rep, params, logged) ==
    Ran(<<params>>, Returned("tools", EmptyDict, EmptyDict, EmptyList), logged)
ToolsExecutionError(req, rep, params, logged) ==
    Ran(<<params>>,
        Raised("tools", "MalloyError", "Query execution failed: ", rep.text,
               Context({"query", "model_path", "project", "package"},
                       req.query, req.model_path,
                       params.project_name, params.package_name)),
        logged)

\* tools.py:75-92, the three fields decoded in order, the first error wins
ToolsParse(req, rep, params, logged) ==
    LET data_styles == LoadsOrEmpty(rep.data_styles, EmptyDict)
        model_def == LoadsOrEmpty(rep.model_def, EmptyDict)
        query_result == JsonLoads(rep.query_result)
        first == IF ~data_styles.ok THEN data_styles
                 ELSE IF ~model_def.ok THEN model_def
                 ELSE query_result
    IN  IF first.ok
        THEN Ran(<<params>>,
                 Returned("tools", data_styles.value, model_def.value,
                          query_result.value),
                 Append(logged, Info("Query executed successfully")))
        ELSE IF first.error = "JSONDecodeError"
        THEN Ran(<<params>>,
                 Raised("tools", "MalloyError", "Failed to parse query results: ",
                        first.detail,
                        Context({"model_path"}, PyNone, req.model_path,
                                PyNone, PyNone)),
                 logged)
        ELSE ToolsUnexpected(req, <<params>>, logged, first.detail)

\* tools.py:42-102
ToolsExecute(req, rep, project_name) ==
    LET logged == <<Info("Executing query against model")>>
        params == QueryParams(project_name, FirstComponent(req.model_path),
                              req.model_path, req.query, PyNone, PyNone)
    IN  IF req.fault = "info"
        THEN ToolsUnexpected(req, <<>>, <<>>, NOTIFY_ERROR_TEXT)
        ELSE IF req.fault = "context"
        THEN ToolsUnexpected(req, <<>>, logged, CONTEXT_ERROR_TEXT)
        \* no report_progress here: that fault goes unnoticed
        ELSE IF rep.fails
        THEN ToolsExecutionError(req, rep, params, logged)
        ELSE ToolsParse(req, rep, params, logged)

(***************************************************************************)
(* execute_malloy_query as tools/query_executor.py has it: (params, ctx).  *)
(***************************************************************************)
EXECUTOR_PROJECT == "home"
UNBOUND_TEXT ==
    "cannot access local variable 'package_name' where it is not associated with a value"

\* query_executor.py:81-90, the one except clause
ExecutorFailure(issued, logged, detail) ==
    Ran(issued,
        Raised("executor", "ValueError", "Failed to execute Malloy query: ",
               detail, NoContext),
        Append(logged, ErrorLog("Failed to execute Malloy query: " \o detail)))

\* query_executor.py:67-79
ExecutorParse(rep, params, logged) ==
    LET data_styles == LoadsOrEmpty(rep.data_styles, EmptyDict)
        model_def == LoadsOrEmpty(rep.model_def, EmptyDict)
        query_result == LoadsOrEmpty(rep.query_result, EmptyList)
        first == IF ~data_styles.ok THEN data_styles
                 ELSE IF ~model_def.ok THEN model_def
                 ELSE query_result
    IN  IF first.ok
        THEN Ran(<<params>>,
                 Returned("executor", data_styles.value, model_def.value,
                          query_result.value),
                 logged \o <<Info("Query executed successfully"), Progress("2/2")>>)
        ELSE ExecutorFailure(<<params>>, logged, first.detail)

\* query_executor.py:83-88 when line 52 was not reached: package_name is not
\* bound, building error_context raises, ctx.error and the ValueError are skipped
ExecutorEarlyFailure(logged) ==
    Ran(<<>>,
        Raised("executor", "UnboundLocalError", "", UNBOUND_TEXT, NoContext),
        logged)

\* query_executor.py:43-90
ExecutorExecute(req, rep) ==
    LET started == <<Info("Executing query against model"), Progress("0/2")>>
        params == QueryParams(EXECUTOR_PROJECT, FirstComponent(req.model_path),
                              req.model_path, req.query, PyNone, PyNone)
        logged == Append(started, Progress("1/2"))
    IN  IF req.fault = "info"
        THEN ExecutorEarlyFailure(<<>>)
        ELSE IF req.fault = "progress"
        THEN ExecutorEarlyFailure(<<Info("Executing query against model")>>)
        ELSE IF req.fault = "context"
        THEN ExecutorEarlyFailure(started)
        ELSE IF rep.fails
        THEN ExecutorFailure(<<params>>, logged, rep.text)
        ELSE ExecutorParse(rep, params, logged)

(***************************************************************************)
(* execute_malloy_query as tests/test_query_executor.py calls it:          *)
(* (project_name, package_name, model_path, query, source_name,            *)
(* query_name).  The selection is validated before the client is used.     *)
(***************************************************************************)
CONFLICT_TEXT == "Parameters 'query' and 'query_name' are mutually exclusive"
MISSING_SOURCE_TEXT == "Parameter 'source_name' is required when using 'query_name'"

\* both raw query text and a query name were given
IgnoreConflict(req) == FALSE
SelectionConflict(req) == req.query # PyNone /\ req.query_name # PyNone

\* a query name was given without the source it belongs to
IgnoreMissingSource(req) == FALSE
MissingSourceName(req) == req.query_name # PyNone /\ req.source_name = PyNone

\* the validation error the selection earns, "none" when it passes
RejectEmptySelection(req) ==
    IF SelectionConflict(req) THEN "conflict"
    ELSE IF MissingSourceName(req) THEN "missing_source"
    ELSE IF req.query = PyNone /\ req.query_name = PyNone THEN "empty"
    ELSE "none"
ValidationError(req) ==
    IF SelectionConflict(req) THEN "conflict"
    ELSE IF MissingSourceName(req) THEN "missing_source"
    ELSE "none"

\* the parameters sent: the caller's own, nothing derived
ServerParamsWithoutPath(req) ==
    QueryParams(req.project_name, req.package_name, <<>>, req.query,
                req.source_name, req.query_name)
ServerParams(req) ==
    QueryParams(req.project_name, req.package_name, req.model_path, req.query,
                req.source_name, req.query_name)

ServerExecute(req, rep) ==
    LET verdict == ValidationError(req)
        params == ServerParams(req)
    IN  IF verdict = "conflict"
        THEN Ran(<<>>, Raised("server", "MalloyError", CONFLICT_TEXT, "", NoContext),
                 <<>>)
        ELSE IF verdict # "none"
        THEN Ran(<<>>,
                 Raised("server", "MalloyError", MISSING_SOURCE_TEXT, "", NoContext),
                 <<>>)
        ELSE IF rep.fails
        THEN Ran(<<params>>,
                 Raised("server", "MalloyError", "Failed to execute query: ", rep.text,
                        Context({"query", "model_path", "project"}, req.query,
                                req.model_path, req.project_name, PyNone)),
                 <<>>)
        ELSE Ran(<<params>>,
                 Returned("server", JsonLoads(rep.data_styles).value,
                          JsonLoads(rep.model_def).value,
                          JsonLoads(rep.query_result).value),
                 <<>>)

(***************************************************************************)
(* The calls made and the answers the publisher can give.                  *)
(***************************************************************************)
QUERY_TEXT == "test_query"
RequestProjects == {"home", "test_project"}
RequestPackages == {"sales"}
RequestPaths == {<<"sales", "orders.malloy">>, <<"orders.malloy">>}
FailureTexts == {"Query failed", "Connection refused"}

\* tools.py and query_executor.py take the query text and the model path only
TextRequests ==
    {[project_name |-> p, package_name |-> k, model_path |-> m,
      query |-> QUERY_TEXT, source_name |-> PyNone, query_name |-> PyNone,
      fault |-> f] :
        p \in RequestProjects, k \in RequestPackages, m \in RequestPaths,
        f \in {"none"} \cup EarlyFaults}

\* a source name is only ever given together with a query name
SelectionRequests ==
    {r \in [project_name : RequestProjects, package_name : RequestPackages,
            model_path : RequestPaths, query : {PyNone, QUERY_TEXT},
            source_name : {PyNone, "test_source"},
            query_name : {PyNone, "test_query_name"}, fault : {"none"}] :
        r.source_name # PyNone => r.query_name # PyNone}

Failures ==
    {[fails |-> TRUE, text |-> t, data_styles |-> PyNone, model_def |-> PyNone,
      query_result |-> PyNone] : t \in FailureTexts}

\* each field omitted (None), empty, well-formed or malformed
Payloads ==
    [fails : {FALSE}, text : {""},
     data_styles : {PyNone, "", STYLES_JSON, BAD_JSON},
     model_def : {PyNone, "", DEF_JSON, BAD_JSON},
     query_result : {PyNone, "", ROWS_JSON, BAD_JSON}]

WellFormedPayloads ==
    {[fails |-> FALSE, text |-> "", data_styles |-> STYLES_JSON,
      model_def |-> DEF_JSON, query_result |-> ROWS_JSON]}

\* one call served from start to end; calls are served one after another
Serve(req, rep, ran) ==
    /\ request = NoRequest
    /\ request' = req
    /\ reply' = IF ran.qcalls = <<>> THEN NoReply ELSE rep
    /\ qcalls' = ran.qcalls
    /\ result' = ran.result
    /\ ctx_log' = ran.ctx_log
    /\ UNCHANGED <<ctx_project, remote_projects, served>>
    /\ UNCHANGED loaderVars
    /\ UNCHANGED connVars

\* these two take no project argument: the caller means the project in use
ToolsExecuteMalloyQuery ==
    \E req \in TextRequests, rep \in Failures \cup Payloads :
        /\ req.project_name = ctx_project
        /\ Serve(req, rep, ToolsExecute(req, rep, ctx_project))

ExecutorExecuteMalloyQuery ==
    \E req \in TextRequests, rep \in Failures \cup Payloads :
        /\ req.project_name = ctx_project
        /\ Serve(req, rep, ExecutorExecute(req, rep))

ServerExecuteMalloyQuery ==
    \E req \in SelectionRequests, rep \in Failures \cup WellFormedPayloads :
        Serve(req, rep, ServerExecute(req, rep))

\* the caller has its answer; the handlers keep nothing from one call to the next
AwaitNextCall ==
    /\ result.kind # "none"
    /\ request' = NoRequest
    /\ reply' = NoReply
    /\ qcalls' = <<>>
    /\ result' = NoOutcome
    /\ ctx_log' = <<>>
    /\ UNCHANGED <<ctx_project, remote_projects, served>>
    /\ UNCHANGED loaderVars
    /\ UNCHANGED connVars

\* the service is up: the context holds a client and the project's name
QueryInit ==
    /\ LoaderIdle
    /\ ConnIdle
    /\ remote_projects = <<PROJECT_NAME>>
    /\ ctx_project \in RequestProjects
    /\ QueryIdle

QueryNext ==
    \/ ToolsExecuteMalloyQuery
    \/ ExecutorExecuteMalloyQuery
    \/ ServerExecuteMalloyQuery
    \/ AwaitNextCall

QuerySpec == QueryInit /\ [][QueryNext]_vars

(***************************************************************************)
(* What the runs are judged by.                                            *)
(***************************************************************************)
Range(s) == {s[k] : k \in DOMAIN s}
Last(s) == s[Len(s)]

OpenProbes == {k \in DOMAIN probes : probes[k] = "open"}
AllOutcomes(o) == \A k \in DOMAIN outcomes : outcomes[k] = o

Done == pc \in {"ready", "failed"}
CallsOf(op) == {k \in DOMAIN calls : calls[k].op = op}
FailedCalls(op) == {k \in CallsOf(op) : ~calls[k].ok}
OkCalls(op) == {k \in CallsOf(op) : calls[k].ok}
\* list_models was issued for package p
Attempted(p) == \E k \in CallsOf("list_models") : calls[k].pkg = p
ListingFailed(p) == \E k \in FailedCalls("list_models") : calls[k].pkg = p
DetailAttempted(p, m) ==
    \E k \in CallsOf("get_model") : calls[k].pkg = p /\ calls[k].path = m
DetailFailed(p, m) ==
    \E k \in FailedCalls("get_model") : calls[k].pkg = p /\ calls[k].path = m
DetailResolved(p, m) ==
    \E k \in OkCalls("get_model") : calls[k].pkg = p /\ calls[k].path = m
\* package p contributes no model: empty listing, failed listing, or every
\* detail fetch failed
YieldsZero(p) ==
    \/ RemoteModelsOf(p) = <<>>
    \/ ListingFailed(p)
    \/ \A m \in Range(RemoteModelsOf(p)) : DetailFailed(p, m)

(* C1: when every probe raises, connect_to_publisher makes exactly
   max_retries attempts, never returns a client, and ends by raising a
   connection error whose context records attempts = max_retries and the
   target URL. *)
C1_ExactlyNAttemptsThenConnectionError ==
    AllOutcomes("raise") =>
        /\ Len(outcomes) <= max_retries
        /\ Len(probes) <= max_retries
        /\ cpc # "connected"
        /\ (~ENABLED ConnectNext) => cpc = "raised"
        /\ cpc = "raised" =>
              /\ Len(probes) = max_retries
              /\ Len(outcomes) = max_retries
              /\ conn_error.type = "MalloyError"
              /\ conn_error.attempts = max_retries
              /\ conn_error.url = target_url
              /\ target_url # NoUrl

C1_Witness ==
    /\ cpc = "raised"
    /\ max_retries > 1
    /\ Len(outcomes) = max_retries
    /\ AllOutcomes("raise")

(* C2: a probe that returns an empty project list is a failed attempt like
   one that raised: it never yields a client, it is counted, the next attempt
   follows while the budget lasts, and when every permitted attempt returns
   an empty list the run ends in the fatal error with no client left. *)
C2_EmptyProjectListIsFailedAttempt ==
    /\ cpc = "connected" => Last(outcomes) = "ok"
    /\ cpc \in {"backoff", "construct", "raise", "raised"} => attempt = Len(outcomes)
    /\ (outcomes # <<>> /\ Last(outcomes) = "empty" /\ attempt = Len(outcomes)
            /\ attempt < max_retries)
          => cpc \in {"backoff", "construct", "probe"}
    /\ (AllOutcomes("empty") /\ ~ENABLED ConnectNext) =>
          /\ cpc = "raised"
          /\ attempt = max_retries
          /\ conn_error.type = "MalloyError"
          /\ OpenProbes = {}

C2_Witness ==
    /\ cpc = "raised"
    /\ Len(outcomes) > 1
    /\ AllOutcomes("empty")

(* C3: at most one probe client is open at any time; none is open when the
   next one is constructed; on a successful return the returned client is
   the only open one and every earlier one has been released. *)
C3_FailedProbeClientsReleased ==
    /\ Cardinality(OpenProbes) <= 1
    /\ cpc = "construct" => OpenProbes = {}
    /\ cpc = "connected" =>
          /\ probes # <<>>
          /\ OpenProbes = {Len(probes)}
          /\ Len(outcomes) <= max_retries

C3_Witness ==
    /\ cpc = "connected"
    /\ Len(probes) >= 3
    /\ attempt >= 2

(* C4: the process's client is closed at most once, and after a failed
   startup it has been closed (exactly once) and is not left open. *)
C4_ClientClosedAfterFailedStartup ==
    /\ client.closes <= 1
    /\ pc = "failed" => (~client.open /\ client.closes = 1)

(* C5: once startup has finished and the service is ready, the published
   model list is non-empty. *)
C5_ReadyImpliesModels ==
    pc = "ready" => model_metadata # <<>>

(* C6: a failed list_packages call is fatal at once: the error raised
   carries the project name in its context, no list_models or get_model call
   follows, and nothing is published. *)
C6_PackageListingFailureIsFatal ==
    FailedCalls("list_packages") # {} =>
        /\ pc = "failed"
        /\ error.type # "none"
        /\ <<"project", PROJECT_NAME>> \in error.context
        /\ FailedCalls("list_packages") = {Len(calls)}
        /\ CallsOf("list_models") = {} /\ CallsOf("get_model") = {}
        /\ resources = <<>>

(* C7: when list_packages succeeds with an empty list, startup never
   completes and no resource is published. *)
C7_EmptyPackageListIsFatal ==
    (OkCalls("list_packages") # {} /\ packages = <<>>) =>
        /\ pc # "ready"
        /\ resources = <<>>

(* C8: when the load has ended and some list_models call failed, every
   package was still attempted, the load did not raise if a model of another
   package was resolved, and every model of a non-failing package whose
   detail fetch did not fail is in the result. *)
C8_FailedListingSkipsOnlyThatPackage ==
    (Done /\ FailedCalls("list_models") # {}) =>
        /\ \A p \in Range(packages) : Attempted(p)
        /\ model_metadata # <<>> => pc = "ready"
        /\ \A p \in Range(packages) : ~ListingFailed(p) =>
              \A m \in Range(RemoteModelsOf(p)) :
                  ~DetailFailed(p, m) => DetailResolved(p, m)

(* C9: when the load has ended and some get_model call failed, every model
   reference of every listed package was still attempted, the failure was
   logged, and the load returned the models whose fetch succeeded. *)
C9_FailedDetailOmitsOnlyThatModel ==
    (Done /\ FailedCalls("get_model") # {}) =>
        /\ \A p \in Range(packages) : ~ListingFailed(p) =>
              \A m \in Range(RemoteModelsOf(p)) : DetailAttempted(p, m)
        /\ log # <<>>
        /\ OkCalls("get_model") # {} =>
              /\ pc = "ready"
              /\ Len(model_metadata) = Cardinality(OkCalls("get_model"))

(* C10: when the load has ended and every package yielded zero resolvable
   models, the load raised, every package had been attempted before it did,
   and the error context holds the project name and every package name. *)
C10_NoModelsErrorNamesEveryPackage ==
    (Done /\ packages # <<>> /\ \A p \in Range(packages) : YieldsZero(p)) =>
        /\ pc = "failed"
        /\ \A p \in Range(packages) : Attempted(p)
        /\ <<"project", PROJECT_NAME>> \in error.context
        /\ \A p \in Range(packages) : <<"package", p>> \in error.context


(***************************************************************************)
(* execute_malloy_query: what a served call is judged by.                  *)
(***************************************************************************)
ServedBy(handler) == result.handler = handler

BothSelections == request.query # PyNone /\ request.query_name # PyNone
NameWithoutSource == request.query_name # PyNone /\ request.source_name = PyNone
NoSelection ==
    /\ request.query = PyNone
    /\ request.source_name = PyNone
    /\ request.query_name = PyNone

RejectedBeforeCall(text) ==
    /\ result.kind = "raised"
    /\ result.type = "MalloyError"
    /\ Message(result) = text
    /\ qcalls = <<>>

(* C11: a call that gives both raw query text and a query name raises the
   "mutually exclusive" validation error, and execute_query is invoked zero
   times for it. *)
C11_ConflictingSelectionRejectedBeforeCall ==
    (ServedBy("server") /\ BothSelections) => RejectedBeforeCall(CONFLICT_TEXT)

C11_Witness ==
    /\ ServedBy("server")
    /\ BothSelections
    /\ request.source_name = PyNone
    /\ result.kind = "raised"

(* C12 as stated: every call that gives a query name without a source name
   raises the validation error naming source_name, with no execute_query
   call. *)
C12_MissingSourceAlwaysNamed ==
    (ServedBy("server") /\ NameWithoutSource)
        => RejectedBeforeCall(MISSING_SOURCE_TEXT)

(* C12: a call that gives a query name without a source name is rejected with
   a MalloyError before any execute_query call; the error names source_name
   when no raw query text was given as well, and is the "mutually exclusive"
   one when it was. *)
C12_MissingSourceRejectedBeforeCall ==
    (ServedBy("server") /\ NameWithoutSource)
        => RejectedBeforeCall(IF request.query = PyNone
                              THEN MISSING_SOURCE_TEXT
                              ELSE CONFLICT_TEXT)

C12_Witness ==
    /\ ServedBy("server")
    /\ NameWithoutSource
    /\ request.query = PyNone
    /\ Message(result) = MISSING_SOURCE_TEXT

(* C13 as stated: a call that gives neither raw query text nor a named query
   raises a validation error before any execute_query call. *)
C13_EmptySelectionRejected ==
    (ServedBy("server") /\ NoSelection)
        => (result.kind = "raised" /\ qcalls = <<>>)

(* C13: a call reaches the client, once, unless it gives both selections or a
   query name without its source name; those two are rejected with a
   MalloyError and no execute_query call.  A call with no selection at all
   reaches the client. *)
C13_CallReachesClientUnlessConflictOrIncomplete ==
    ServedBy("server")
        => IF BothSelections \/ NameWithoutSource
           THEN /\ qcalls = <<>>
                /\ result.kind = "raised"
                /\ result.type = "MalloyError"
           ELSE Len(qcalls) = 1

C13_Witness ==
    /\ ServedBy("server")
    /\ NoSelection
    /\ Len(qcalls) = 1

(* C14: a call that gives only project name, package name and model path
   issues exactly one execute_query call whose parameters carry just that
   project, package and path, and, the publisher answering it, returns a
   result. *)
C14_PathOnlyCallSucceeds ==
    (ServedBy("server") /\ NoSelection /\ ~reply.fails)
        => /\ qcalls = <<QueryParams(request.project_name, request.package_name,
                                     request.model_path, PyNone, PyNone, PyNone)>>
           /\ result.kind = "returned"
           /\ result.value # NoValue

C14_Witness ==
    /\ ServedBy("server")
    /\ NoSelection
    /\ request.project_name = "test_project"
    /\ request.model_path = <<"orders.malloy">>
    /\ result.kind = "returned"


PassesValidation ==
    /\ result.kind # "none"
    /\ request.fault = "none"
    /\ ~BothSelections
    /\ ~NameWithoutSource

(* C15: for every call that passes validation exactly one execute_query call
   is issued, and its project name, package name, model path and query
   selection are the ones the caller gave, whether or not the model path
   contains a '/'. *)
C15_CallCarriesCallersParameters ==
    PassesValidation
        => qcalls = <<QueryParams(request.project_name, request.package_name,
                                  request.model_path, request.query,
                                  request.source_name, request.query_name)>>


\* the publisher was asked, and raised
RemoteFailed == Len(qcalls) = 1 /\ reply.fails
\* the publisher was asked, and answered
RemoteAnswered == Len(qcalls) = 1 /\ ~reply.fails

(* C16: when the client's execute_query call fails, the tools.py handler and
   the handler the tests call return nothing and raise a MalloyError whose
   message ends with the transport failure's text and whose context holds the
   query, the model path and the project; the outcome is never a returned
   result. *)
C16_RemoteFailureRaisesDomainError ==
    ((ServedBy("tools") \/ ServedBy("server")) /\ RemoteFailed)
        => /\ result.kind = "raised"
           /\ result.type = "MalloyError"
           /\ result.detail = reply.text
           /\ result.value = NoValue
           /\ {"query", "model_path", "project"} \subseteq result.context.keys
           /\ result.context.query = request.query
           /\ result.context.model_path = request.model_path
           /\ result.context.project = qcalls[1].project_name

C16_Witness ==
    /\ ServedBy("tools")
    /\ RemoteFailed
    /\ Message(result) = "Query execution failed: Query failed"
    /\ ctx_project = "test_project"

Fields == {"data_styles", "model_def", "query_result"}
Present(field) == Truthy(reply[field])
Malformed(field) == Present(field) /\ ~JsonLoads(reply[field]).ok

\* the type and message prefix with which the serving handler reports a failed
\* execute_query call for this request
ExecutionErrorKind ==
    LET rep == CHOOSE f \in Failures : TRUE
        ran == IF ServedBy("tools") THEN ToolsExecute(request, rep, ctx_project)
               ELSE IF ServedBy("executor") THEN ExecutorExecute(request, rep)
               ELSE ServerExecute(request, rep)
    IN  <<ran.result.type, ran.result.prefix>>

(* C17: when the remote call succeeds but one of the payload fields present
   in the answer is not decodable, the call raises a parse error that differs
   from the execution error in type or message prefix, and returns nothing. *)
C17_MalformedPayloadRaisesDistinctParseError ==
    (RemoteAnswered /\ \E f \in Fields : Malformed(f))
        => /\ result.kind = "raised"
           /\ result.value = NoValue
           /\ <<result.type, result.prefix>> # ExecutionErrorKind

\* the decoded value a field must have in a successful result
Expected(field, empty) ==
    IF Present(field) THEN JsonLoads(reply[field]).value ELSE empty

(* C18: when the remote call succeeds and every field of the answer is either
   omitted, empty or well-formed, the call returns a result in which each
   omitted or empty field is the empty value and each present field is
   decoded; a missing row-data field does not make the call fail. *)
C18_FieldsIndependentlyOptional ==
    (RemoteAnswered /\ \A f \in Fields : ~Malformed(f))
        => /\ result.kind = "returned"
           /\ result.value.data_styles = Expected("data_styles", EmptyDict)
           /\ result.value.model_def = Expected("model_def", EmptyDict)
           /\ result.value.query_result = Expected("query_result", EmptyList)


ResourceNames == {resources[k].name : k \in DOMAIN resources}

(* C19: once the resources are published they are exactly one
   project-metadata resource, one health-check resource, one resource per
   loaded package under its name and one per loaded model under its path,
   and nothing else. *)
C19_PublishedResourcesAreExact ==
    pc = "ready"
        => /\ ResourceNames =
                  {PROJECT_URI, HEALTHCHECK_URI}
                  \cup {PackageUri(package_metadata[k].name) :
                            k \in DOMAIN package_metadata}
                  \cup {ModelUri(model_metadata[k].path) :
                            k \in DOMAIN model_metadata}
           /\ Len(resources) = 2 + Len(package_metadata) + Len(model_metadata)


\* the addresses a catalog published under the project called `name` can have
AddressesUnder(name) ==
    LET prefix == "malloy://project/" \o name \o "/"
    IN  {prefix \o "metadata"}
        \cup {prefix \o "package/" \o p : p \in PkgNames}
        \cup {prefix \o "model/" \o m : m \in ModelPaths}

(* C20: startup selects the first project list_projects returns; once the
   service is ready the project in use is that one, every package-listing,
   model-listing and model-detail call was made for it, and every published
   resource address is under its name. *)
C20_FirstListedProjectIsUsedThroughout ==
    pc = "ready"
        => LET first == remote_projects[1]
           IN  /\ project.name = first
               /\ \A k \in DOMAIN calls : calls[k].project = first
               /\ ResourceNames \subseteq AddressesUnder(first)


\* two calls of the same kind for the same package and model path
SameCall(k1, k2) ==
    /\ calls[k1].op = calls[k2].op
    /\ calls[k1].pkg = calls[k2].pkg
    /\ calls[k1].path = calls[k2].path

(* C22: during one catalog load list_packages is issued once (never twice,
   and once when the load completes), list_models at most once per package,
   get_model at most once per model reference, and a call that failed is
   never issued again. *)
C22_LoaderIssuesEachCallOnce ==
    /\ Cardinality(CallsOf("list_packages")) <= 1
    /\ pc = "ready" => Cardinality(CallsOf("list_packages")) = 1
    /\ \A k1, k2 \in CallsOf("list_models") :
           calls[k1].pkg = calls[k2].pkg => k1 = k2
    /\ \A k1, k2 \in CallsOf("get_model") : SameCall(k1, k2) => k1 = k2
    /\ \A k1, k2 \in DOMAIN calls :
           (~calls[k1].ok /\ k1 < k2) => ~SameCall(k1, k2)


ModelAddresses == {ModelUri(model_metadata[k].path) : k \in DOMAIN model_metadata}

(* C23: once the resources are published no two of them have the same
   address, two loaded models of different packages with the same path
   included, and no model's address is the address of a package, of the
   project metadata or of the health check. *)
C23_ResourceAddressesPairwiseDistinct ==
    pc = "ready"
        => /\ \A k1, k2 \in DOMAIN resources :
                  resources[k1].name = resources[k2].name => k1 = k2
           /\ ModelAddresses \cap
                  ({PROJECT_URI, HEALTHCHECK_URI}
                   \cup {PackageUri(p) : p \in PkgNames}) = {}


LoadsStarted == CallsOf("get_project")

(* C21: every query and every resource read was served after startup had
   completed without error; once startup has failed the service stays failed
   for ever, serves nothing and sends the client nothing more; and the
   catalog load runs at most once. *)
C21_NothingServedBeforeOrWithoutStartup ==
    /\ [](served # <<>>
             => /\ pc = "ready"
                /\ error = NoError
                /\ \A k \in DOMAIN served : served[k].during = "ready")
    /\ [](error # NoError => (pc = "failed" /\ served = <<>>))
    /\ [][pc = "failed"
             => (pc' = "failed" /\ served' = served /\ calls' = calls)]_vars
    /\ [](Cardinality(LoadsStarted) <= 1)

C21_Witness ==
    /\ pc = "ready"
    /\ \E k \in DOMAIN served : served[k].kind = "query"
    /\ \E k \in DOMAIN served : served[k].kind = "resource"


\* some step of the call failed
StepFailed ==
    \/ request.fault \in EarlyFaults
    \/ RemoteFailed
    \/ RemoteAnswered /\ \E f \in Fields : Malformed(f)

(* C24: in the query_executor tool a failure at any step (the first ctx.info
   or report_progress, the lifespan-context lookup, the execute_query call,
   the JSON decoding) is reported through ctx.error and reaches the caller as
   a ValueError whose message starts with "Failed to execute Malloy query";
   no other exception type leaves the tool. *)
C24_EveryFailureIsAReportedValueError ==
    (ServedBy("executor") /\ (StepFailed \/ result.kind = "raised"))
        => /\ result.kind = "raised"
           /\ result.type = "ValueError"
           /\ result.prefix = "Failed to execute Malloy query: "
           /\ \E k \in DOMAIN ctx_log : ctx_log[k].level = "error"

====
